---- MODULE Spec2Model ----
(***************************************************************************)
(* Bottom effect correction (BEC) coefficient providers of                 *)
(* pyfmrheo/models/correction_factors.py.                                  *)
(*                                                                         *)
(* One call of one provider is a run of the state machine: the geometry    *)
(* gate (X_call), one action per iteration of the sample loop (X_iter,     *)
(* the whole try/except of that iteration) and the return.                 *)
(*                                                                         *)
(* Numbers.  A Python/numpy float is a record [t, v]:                      *)
(*   t = "float": the finite value v / SCALE (fixed point, products and    *)
(*                quotients truncated toward zero);                        *)
(*   t = "nan", t = "inf" (v = 1 or -1): the IEEE values numpy produces    *)
(*                under its default error state (warn, do not raise);      *)
(*   t = "None": a malformed element of the input (arithmetic on it is a   *)
(*                TypeError);                                              *)
(*   t = "raise": not a value, an exception propagating out of an          *)
(*                expression.                                              *)
(***************************************************************************)
EXTENDS Integers, Sequences, FiniteSets, TLC

VARIABLES provider, h, indentation, ind_shape, tip_parameter, order,
          pc, i, coeff, coefficients_out, traces

vars == <<provider, h, indentation, ind_shape, tip_parameter, order,
          pc, i, coeff, coefficients_out, traces>>

args == <<provider, h, indentation, ind_shape, tip_parameter, order>>

-----------------------------------------------------------------------------
(* Bounds of the model *)

\* longest indentation sequence
MaxLen == 2

\* largest order passed to a provider that takes one (both tables are shorter)
MaxOrder == 7

\* fixed-point resolution: 1.0 is SCALE units, SCALE = BASE * BASE
BASE == 10 * 10
SCALE == BASE * BASE

-----------------------------------------------------------------------------
(* Floats *)

F(n) == [t |-> "float", v |-> n]
NaN == [t |-> "nan", v |-> 0]
Inf(s) == [t |-> "inf", v |-> s]
None == [t |-> "None", v |-> 0]
Raise == [t |-> "raise", v |-> 0]

Abs(n) == IF n < 0 THEN -n ELSE n
Sgn(n) == IF n < 0 THEN -1 ELSE IF n > 0 THEN 1 ELSE 0

\* a / b truncated toward zero, b > 0
TDiv(a, b) == IF a >= 0 THEN a \div b ELSE -((-a) \div b)

\* the literal n/den of the source, at the model's resolution
D(n, den) == F(TDiv(n * SCALE, den))

\* an exception raised by an operand propagates; arithmetic on None is a TypeError
Fails(a, b) == a.t \in {"raise", "None"} \/ b.t \in {"raise", "None"}

\* |a| * |b| / SCALE without leaving 32 bits
MulAbs(a, b) ==
    LET a1 == a \div SCALE
        a0 == a % SCALE
        b1 == b \div SCALE
        b0 == b % SCALE
    IN  a1 * b1 * SCALE + a1 * b0 + a0 * b1 + ((a0 * b0) \div SCALE)

\* a * b
Mul(a, b) ==
    IF Fails(a, b) THEN Raise
    ELSE IF a.t = "nan" \/ b.t = "nan" THEN NaN
    ELSE IF a.t = "inf" \/ b.t = "inf"
         THEN IF a.v = 0 \/ b.v = 0 THEN NaN ELSE Inf(Sgn(a.v) * Sgn(b.v))
    ELSE F(Sgn(a.v) * Sgn(b.v) * MulAbs(Abs(a.v), Abs(b.v)))

\* a + b
Add(a, b) ==
    IF Fails(a, b) THEN Raise
    ELSE IF a.t = "nan" \/ b.t = "nan" THEN NaN
    ELSE IF a.t = "inf" /\ b.t = "inf"
         THEN IF a.v = b.v THEN a ELSE NaN
    ELSE IF a.t = "inf" THEN a
    ELSE IF b.t = "inf" THEN b
    ELSE F(a.v + b.v)

\* -a
Neg(a) ==
    IF a.t \in {"raise", "None"} THEN Raise
    ELSE IF a.t = "nan" THEN NaN
    ELSE [t |-> a.t, v |-> -a.v]

\* |a| * SCALE / |b| without leaving 32 bits, b > 0: long division, two
\* digits of base BASE after the point
DivAbs(a, b) ==
    LET r0 == a % b
        r1 == (r0 * BASE) % b
    IN  (a \div b) * SCALE + ((r0 * BASE) \div b) * BASE + ((r1 * BASE) \div b)

\* a / b.  A zero divisor is reached only with a numpy numerator
\* (sphere_approx_kontomaris): numpy returns inf or nan and warns.  The
\* divisions by h and its powers sit behind "if h > 0".
Div(a, b) ==
    IF Fails(a, b) THEN Raise
    ELSE IF a.t = "nan" \/ b.t = "nan" THEN NaN
    ELSE IF a.t = "inf"
         THEN IF b.t = "inf" THEN NaN
              ELSE Inf(a.v * (IF b.v < 0 THEN -1 ELSE 1))
    ELSE IF b.t = "inf" THEN F(0)
    ELSE IF b.v = 0
         THEN IF a.v = 0 THEN NaN ELSE Inf(Sgn(a.v))
    ELSE F(Sgn(a.v) * Sgn(b.v) * DivAbs(Abs(a.v), Abs(b.v)))

\* a ** n, n >= 1
RECURSIVE Pow(_, _)
Pow(a, n) == IF n <= 1 THEN a ELSE Mul(Pow(a, n - 1), a)

\* the largest r in lo..hi with r * r <= n
RECURSIVE ISqrtIn(_, _, _)
ISqrtIn(n, lo, hi) ==
    IF lo >= hi THEN lo
    ELSE LET mid == (lo + hi + 1) \div 2
         IN  IF mid * mid <= n THEN ISqrtIn(n, mid, hi)
             ELSE ISqrtIn(n, lo, mid - 1)

\* np.sqrt(a): nan (and a RuntimeWarning, no exception) below zero
NpSqrt(a) ==
    IF a.t \in {"raise", "None"} THEN Raise
    ELSE IF a.t = "nan" THEN NaN
    ELSE IF a.t = "inf" THEN IF a.v > 0 THEN a ELSE NaN
    ELSE IF a.v < 0 THEN NaN
    ELSE F(ISqrtIn(a.v * SCALE, 0, 46340))

\* np.tan(a), tabulated on the angles of TipParams (radians):
\* tan(0) = 0, tan(0.5) = 0.5463, tan(2.0) = -2.1850
NpTan(a) ==
    IF a.t \in {"raise", "None"} THEN Raise
    ELSE IF a.t \in {"nan", "inf"} THEN NaN
    ELSE IF a = D(0, 1) THEN D(0, 1)
    ELSE IF a = D(1, 2) THEN D(5463, 10000)
    ELSE D(-21850, 10000)

\* np.pi
NpPi == D(31416, 10000)

\* h > 0
GtZero(x) == x.t = "float" /\ x.v > 0

-----------------------------------------------------------------------------
(* Inputs *)

Providers == {"bec_dimitriadis_paraboloid_bonded",
              "bec_dimitriadis_paraboloid_not_bonded",
              "bec_gavara_cone", "bec_managuli_cone",
              "bec_garcia_garcia", "sphere_approx_kontomaris"}

\* the providers with an order parameter
Ordered == {"bec_garcia_garcia", "sphere_approx_kontomaris"}

\* sample heights: negative, zero, positive
Heights == {D(-1, 1), D(0, 1), D(2, 1)}

\* elements of the indentation sequence: negative, zero, positive, malformed
Depths == {D(-1, 1), D(0, 1), D(2, 1), None}

\* geometry tags
Shapes == {"paraboloid", "cone", "conical", "flat_punch"}

\* tip radius, or half-opening angle in radians
TipParams == {D(0, 1), D(1, 2), D(2, 1)}

RECURSIVE SeqsUpTo(_, _)
SeqsUpTo(S, n) ==
    IF n = 0 THEN {<< >>}
    ELSE LET shorter == SeqsUpTo(S, n - 1)
         IN  shorter \cup {Append(s, x) : s \in {q \in shorter : Len(q) = n - 1}, x \in S}

-----------------------------------------------------------------------------
(* The try bodies: the value of the local coeff when the body ends, and    *)
(* whether it ended by an exception.                                       *)

Done(c) == [coeff |-> c, raised |-> FALSE]
Raised(c) == [coeff |-> c, raised |-> TRUE]

\* mutant of Gated: the gate written "if h != 0"
Gated_nonzero(hh, c) ==
    IF hh.v = 0 THEN Done(D(1, 1))
    ELSE IF c = Raise THEN Raised(D(1, 1))
    ELSE Done(c)

\* coeff = 1.0; if h > 0: coeff = <expression>
Gated(hh, c) ==
    IF ~GtZero(hh) THEN Done(D(1, 1))
    ELSE IF c = Raise THEN Raised(D(1, 1))
    ELSE Done(c)

bec_dimitriadis_paraboloid_bonded_coeff(hh, d, R) ==
    LET X == Div(NpSqrt(Mul(d, R)), hh)
        o2 == Add(Mul(D(1133, 1000), X), Mul(D(1283, 1000), Pow(X, 2)))
        o4 == Add(Mul(D(769, 1000), Pow(X, 3)), Mul(D(975, 10000), Pow(X, 4)))
    IN  Add(Add(D(1, 1), o2), o4)

bec_dimitriadis_paraboloid_bonded_try(hh, d, R) ==
    Gated(hh, bec_dimitriadis_paraboloid_bonded_coeff(hh, d, R))

bec_dimitriadis_paraboloid_not_bonded_coeff(hh, d, R) ==
    LET X == Div(NpSqrt(Mul(d, R)), hh)
        o2 == Add(Mul(D(884, 1000), X), Mul(D(781, 1000), Pow(X, 2)))
        o4 == Add(Mul(D(386, 1000), Pow(X, 3)), Mul(D(48, 10000), Pow(X, 4)))
    IN  Add(Add(D(1, 1), o2), o4)

bec_dimitriadis_paraboloid_not_bonded_try(hh, d, R) ==
    Gated(hh, bec_dimitriadis_paraboloid_not_bonded_coeff(hh, d, R))

\* mutant of bec_gavara_cone_coeff: o2 without its factor X ** 2
bec_gavara_cone_coeff_o2_without_X(hh, d, half_opening_angle) ==
    LET X == Div(d, hh)
        tan_angle == NpTan(half_opening_angle)
        o1 == Mul(Mul(D(17795, 10000),
                      Div(Mul(D(2, 1), tan_angle), Pow(NpPi, 2))), X)
        o2 == Mul(Mul(D(16, 1), Pow(D(17795, 10000), 2)), Pow(tan_angle, 2))
    IN  Add(Add(D(1, 1), o1), o2)

bec_gavara_cone_coeff(hh, d, half_opening_angle) ==
    LET X == Div(d, hh)
        tan_angle == NpTan(half_opening_angle)
        o1 == Mul(Mul(D(17795, 10000),
                      Div(Mul(D(2, 1), tan_angle), Pow(NpPi, 2))), X)
        o2 == Mul(Mul(Mul(D(16, 1), Pow(D(17795, 10000), 2)),
                      Pow(tan_angle, 2)), Pow(X, 2))
    IN  Add(Add(D(1, 1), o1), o2)

bec_gavara_cone_try(hh, d, half_opening_angle) ==
    Gated(hh, bec_gavara_cone_coeff(hh, d, half_opening_angle))

bec_managuli_cone_coeff(hh, d, half_opening_angle) ==
    LET C == Div(Mul(D(17795, 10000), NpTan(half_opening_angle)), Pow(NpPi, 2))
        o1 == Div(Mul(Mul(D(4, 1), C), d), hh)
        o2 == Div(Mul(Mul(D(20, 1), Pow(C, 2)), Pow(d, 2)), Pow(hh, 2))
    IN  Add(Add(D(1, 1), o1), o2)

bec_managuli_cone_try(hh, d, half_opening_angle) ==
    Gated(hh, bec_managuli_cone_coeff(hh, d, half_opening_angle))

-----------------------------------------------------------------------------
(* Garcia, Garcia: the term tables, index j from 0 *)

paraboloid_model_factors(j, hh, d, R) ==
    CASE j = 0 -> Div(Mul(D(1133, 1000), NpSqrt(Mul(d, R))), hh)
      [] j = 1 -> Div(Mul(Mul(D(1497, 1000), d), R), Pow(hh, 2))
      [] j = 2 -> Div(Mul(Mul(Mul(D(1469, 1000), d), R), NpSqrt(Mul(d, R))),
                      Pow(hh, 3))
      [] j = 3 -> Div(Mul(Mul(D(755, 1000), Pow(d, 2)), Pow(R, 2)), Pow(hh, 4))

conical_model_factors(j, hh, d, half_opening_angle) ==
    LET tan_angle == NpTan(half_opening_angle)
    IN  CASE j = 0 -> Div(Mul(Mul(D(721, 1000), d), tan_angle), hh)
          [] j = 1 -> Div(Mul(Mul(D(650, 1000), Pow(d, 2)), Pow(tan_angle, 2)),
                          Pow(hh, 2))
          [] j = 2 -> Div(Mul(Mul(D(491, 1000), Pow(d, 3)), Pow(tan_angle, 3)),
                          Pow(hh, 3))
          [] j = 3 -> Div(Mul(Mul(D(225, 1000), Pow(d, 4)), Pow(tan_angle, 4)),
                          Pow(hh, 4))

\* the second argument is ignored
flat_punch_model_factors(j, hh, d, R) ==
    CASE j = 0 -> Div(Mul(D(1133, 1000), R), hh)
      [] j = 1 -> Div(Mul(D(1283, 1000), Pow(R, 2)), Pow(hh, 2))
      [] j = 2 -> Div(Mul(D(598, 1000), Pow(R, 3)), Pow(hh, 3))
      [] j = 3 -> Div(Neg(Mul(D(291, 1000), Pow(R, 4))), Pow(hh, 4))

\* the dictionary: geometry tag -> table
garcia_garcia_factors ==
    [paraboloid |-> "paraboloid_model_factors",
     conical    |-> "conical_model_factors",
     flat_punch |-> "flat_punch_model_factors"]

\* garcia_garcia_factors.get(ind_shape, None)
garcia_garcia_factors_get(shape) ==
    IF shape \in DOMAIN garcia_garcia_factors
    THEN garcia_garcia_factors[shape] ELSE "None"

\* len(model_factors)
garcia_table_len == 4

\* model_factors[j](h, indentation[i], tip_parameter)
garcia_term(model_factors, j, hh, d, p) ==
    CASE model_factors = "paraboloid_model_factors" ->
             paraboloid_model_factors(j, hh, d, p)
      [] model_factors = "conical_model_factors" ->
             conical_model_factors(j, hh, d, p)
      [] model_factors = "flat_punch_model_factors" ->
             flat_punch_model_factors(j, hh, d, p)

\* mutant of garcia_range: range(order + 1)
garcia_range_inclusive(ord) == ord + 1

\* range(order)
garcia_range(ord) == ord

\* mutant of garcia_loop: the loop stops at the end of the table instead of
\* failing on the lookup
RECURSIVE garcia_loop_clamped(_, _, _, _, _, _, _)
garcia_loop_clamped(model_factors, hh, d, p, n, j, c) ==
    IF j >= n \/ j >= garcia_table_len THEN Done(c)
    ELSE LET s == Add(c, garcia_term(model_factors, j, hh, d, p))
         IN  IF s = Raise THEN Raised(c)
             ELSE garcia_loop_clamped(model_factors, hh, d, p, n, j + 1, s)

\* for j in range(order): O = model_factors[j]; coeff += O(...)
RECURSIVE garcia_loop(_, _, _, _, _, _, _)
garcia_loop(model_factors, hh, d, p, n, j, c) ==
    IF j >= n THEN Done(c)
    ELSE IF j >= garcia_table_len THEN Raised(c)
    ELSE LET s == Add(c, garcia_term(model_factors, j, hh, d, p))
         IN  IF s = Raise THEN Raised(c)
             ELSE garcia_loop(model_factors, hh, d, p, n, j + 1, s)

bec_garcia_garcia_try(hh, d, shape, p, ord) ==
    IF ~GtZero(hh) THEN Done(D(1, 1))
    ELSE garcia_loop(garcia_garcia_factors_get(shape), hh, d, p,
                     garcia_range(ord), 0, D(1, 1))

-----------------------------------------------------------------------------
(* Kontomaris: the term table, index j from 0 *)

kontomaris_model_factors(j, d, R) ==
    CASE j = 0 -> Div(Mul(Div(D(2, 1), D(3, 1)), D(101, 100)), NpSqrt(R))
      [] j = 1 -> Div(Mul(Mul(Div(D(1, 1), D(2, 1)), D(-7303, 100000)),
                          NpSqrt(d)), R)
      [] j = 2 -> Div(Mul(Mul(Mul(Div(D(1, 1), D(3, 1)), D(-1357, 10000)), d),
                          NpSqrt(d)), Pow(R, 2))
      [] j = 3 -> Div(Mul(Mul(Mul(Div(D(1, 1), D(4, 1)), D(3598, 100000)),
                              Pow(d, 2)), NpSqrt(d)), Pow(R, 3))
      [] j = 4 -> Div(Mul(Mul(Mul(Div(D(1, 1), D(5, 1)), D(-4024, 1000000)),
                              Pow(d, 3)), NpSqrt(d)), Pow(R, 4))
      [] j = 5 -> Div(Mul(Mul(Mul(Div(D(1, 1), D(6, 1)), D(1653, 10000000)),
                              Pow(d, 4)), NpSqrt(d)), Pow(R, 5))

\* len(kontomaris_model_factors)
kontomaris_table_len == 6

\* 3/2 * np.sqrt(R) * O(indentation[i], R)
kontomaris_term(j, d, R) ==
    Mul(Mul(Div(D(3, 1), D(2, 1)), NpSqrt(R)), kontomaris_model_factors(j, d, R))

\* for j in range(order): O = model_factors[j]; coeff += 3/2 * ...
RECURSIVE kontomaris_loop(_, _, _, _, _)
kontomaris_loop(d, R, n, j, c) ==
    IF j >= n THEN Done(c)
    ELSE IF j >= kontomaris_table_len THEN Raised(c)
    ELSE LET s == Add(c, kontomaris_term(j, d, R))
         IN  IF s = Raise THEN Raised(c)
             ELSE kontomaris_loop(d, R, n, j + 1, s)

\* mutant of sphere_approx_kontomaris_try: the height gate of the other
\* providers
sphere_approx_kontomaris_try_gated(hh, d, R, ord) ==
    IF ~GtZero(hh) THEN Done(D(1, 1))
    ELSE kontomaris_loop(d, R, ord, 0, D(0, 1))

\* the first parameter, _, is the sample height
sphere_approx_kontomaris_try(hh, d, R, ord) ==
    kontomaris_loop(d, R, ord, 0, D(0, 1))

-----------------------------------------------------------------------------
(* The geometry gates *)

\* not (ind_shape != "paraboloid")
paraboloid_accepts(shape) == shape = "paraboloid"

\* mutant of cone_accepts: "conical" taken for "cone"
cone_accepts_conical(shape) == shape \in {"cone", "conical"}

\* not (ind_shape != "cone")
cone_accepts(shape) == shape = "cone"

\* not (not model_factors)
garcia_accepts(shape) == garcia_garcia_factors_get(shape) # "None"

accepts(p, shape) ==
    CASE p \in {"bec_dimitriadis_paraboloid_bonded",
                "bec_dimitriadis_paraboloid_not_bonded",
                "sphere_approx_kontomaris"} -> paraboloid_accepts(shape)
      [] p \in {"bec_gavara_cone", "bec_managuli_cone"} -> cone_accepts(shape)
      [] p = "bec_garcia_garcia" -> garcia_accepts(shape)

-----------------------------------------------------------------------------
(* The state machine *)

Init ==
    /\ provider \in Providers
    /\ h \in Heights
    /\ indentation \in SeqsUpTo(Depths, MaxLen)
    /\ ind_shape \in Shapes
    /\ tip_parameter \in TipParams
    /\ order \in 0..MaxOrder
    /\ provider \notin Ordered => order = 0
    /\ pc = "call"
    /\ i = 0
    /\ coeff = None
    /\ coefficients_out = << >>
    /\ traces = << >>

\* the entry of a provider: the exception of the gate reaches the caller,
\* otherwise the loop starts on an empty coefficients_out
Enter(p) ==
    /\ pc = "call"
    /\ provider = p
    /\ pc' = IF accepts(p, ind_shape) THEN "loop" ELSE "raised"
    /\ UNCHANGED <<args, i, coeff, coefficients_out, traces>>

\* mutant of except_append: the handler only prints the trace
except_no_append(out, c) == out

\* mutant of except_append: the handler appends the local coeff
except_append_partial(out, c) == Append(out, c)

\* except Exception: traceback.print_exc(); coefficients_out.append(1.0)
except_append(out, c) == Append(out, D(1, 1))

\* one iteration of "for i in range(len(indentation))" whose try body gave r
Iterate(p, r) ==
    /\ pc = "loop"
    /\ provider = p
    /\ i < Len(indentation)
    /\ coeff' = r.coeff
    /\ coefficients_out' = IF r.raised THEN except_append(coefficients_out, r.coeff)
                           ELSE Append(coefficients_out, r.coeff)
    /\ traces' = IF r.raised THEN Append(traces, i) ELSE traces
    /\ i' = i + 1
    /\ UNCHANGED <<args, pc>>

bec_dimitriadis_paraboloid_bonded_call ==
    /\ pc = "call"
    /\ Enter("bec_dimitriadis_paraboloid_bonded")

bec_dimitriadis_paraboloid_bonded_iter ==
    /\ i < Len(indentation)
    /\ Iterate("bec_dimitriadis_paraboloid_bonded",
               bec_dimitriadis_paraboloid_bonded_try(
                   h, indentation[i + 1], tip_parameter))

bec_dimitriadis_paraboloid_not_bonded_call ==
    /\ pc = "call"
    /\ Enter("bec_dimitriadis_paraboloid_not_bonded")

bec_dimitriadis_paraboloid_not_bonded_iter ==
    /\ i < Len(indentation)
    /\ Iterate("bec_dimitriadis_paraboloid_not_bonded",
               bec_dimitriadis_paraboloid_not_bonded_try(
                   h, indentation[i + 1], tip_parameter))

bec_gavara_cone_call ==
    /\ pc = "call"
    /\ Enter("bec_gavara_cone")

bec_gavara_cone_iter ==
    /\ i < Len(indentation)
    /\ Iterate("bec_gavara_cone",
               bec_gavara_cone_try(h, indentation[i + 1], tip_parameter))

bec_managuli_cone_call ==
    /\ pc = "call"
    /\ Enter("bec_managuli_cone")

bec_managuli_cone_iter ==
    /\ i < Len(indentation)
    /\ Iterate("bec_managuli_cone",
               bec_managuli_cone_try(h, indentation[i + 1], tip_parameter))

bec_garcia_garcia_call ==
    /\ pc = "call"
    /\ Enter("bec_garcia_garcia")

bec_garcia_garcia_iter ==
    /\ i < Len(indentation)
    /\ Iterate("bec_garcia_garcia",
               bec_garcia_garcia_try(h, indentation[i + 1], ind_shape,
                                     tip_parameter, order))

sphere_approx_kontomaris_call ==
    /\ pc = "call"
    /\ Enter("sphere_approx_kontomaris")

sphere_approx_kontomaris_iter ==
    /\ i < Len(indentation)
    /\ Iterate("sphere_approx_kontomaris",
               sphere_approx_kontomaris_try(h, indentation[i + 1],
                                            tip_parameter, order))

\* return coefficients_out
Return ==
    /\ pc = "loop"
    /\ i = Len(indentation)
    /\ pc' = "returned"
    /\ UNCHANGED <<args, i, coeff, coefficients_out, traces>>

Next ==
    \/ bec_dimitriadis_paraboloid_bonded_call
    \/ bec_dimitriadis_paraboloid_bonded_iter
    \/ bec_dimitriadis_paraboloid_not_bonded_call
    \/ bec_dimitriadis_paraboloid_not_bonded_iter
    \/ bec_gavara_cone_call
    \/ bec_gavara_cone_iter
    \/ bec_managuli_cone_call
    \/ bec_managuli_cone_iter
    \/ bec_garcia_garcia_call
    \/ bec_garcia_garcia_iter
    \/ sphere_approx_kontomaris_call
    \/ sphere_approx_kontomaris_iter
    \/ Return

Spec == Init /\ [][Next]_vars

-----------------------------------------------------------------------------
(* Vocabulary of the properties *)

One == D(1, 1)
Zero == D(0, 1)

Dimitriadis == {"bec_dimitriadis_paraboloid_bonded",
                "bec_dimitriadis_paraboloid_not_bonded"}

\* the indices of coefficients_out, from 1 (sample k is indentation[k],
\* Python index k - 1)
Filled == 1..Len(coefficients_out)

\* the sample at Python index n made the try body raise (print_exc ran)
Traced(n) == \E t \in 1..Len(traces) : traces[t] = n

\* the try body of provider p on one sample
TryOf(p, hh, d, shape, tip, ord) ==
    CASE p = "bec_dimitriadis_paraboloid_bonded" ->
             bec_dimitriadis_paraboloid_bonded_try(hh, d, tip)
      [] p = "bec_dimitriadis_paraboloid_not_bonded" ->
             bec_dimitriadis_paraboloid_not_bonded_try(hh, d, tip)
      [] p = "bec_gavara_cone" -> bec_gavara_cone_try(hh, d, tip)
      [] p = "bec_managuli_cone" -> bec_managuli_cone_try(hh, d, tip)
      [] p = "bec_garcia_garcia" -> bec_garcia_garcia_try(hh, d, shape, tip, ord)
      [] p = "sphere_approx_kontomaris" ->
             sphere_approx_kontomaris_try(hh, d, tip, ord)

\* what the provider returns for a one-element input whose try body gave r:
\* its only element
OneElementOf(r) == IF r.raised THEN One ELSE r.coeff

OneElementCall(p, hh, d, shape, tip, ord) ==
    OneElementOf(TryOf(p, hh, d, shape, tip, ord))

-----------------------------------------------------------------------------
(* C1: every call that passes the geometry check returns a sequence as     *)
(* long as indentation, whatever samples fail: each iteration of the loop  *)
(* appends exactly one element.                                            *)
C1_LengthInvariant ==
    /\ pc = "loop" => (Len(coefficients_out) = i /\ i <= Len(indentation))
    /\ pc = "returned" => Len(coefficients_out) = Len(indentation)
    /\ (pc # "call" /\ accepts(provider, ind_shape)) => pc \in {"loop", "returned"}
    /\ (pc = "loop" /\ i = Len(indentation)) => ENABLED Return

\* a returned call in which one sample failed and another did not
C1_Witness ==
    /\ pc = "returned"
    /\ Len(indentation) = 2
    /\ Len(traces) = 1

(* C2: a geometry tag outside the provider's accepted set raises to the    *)
(* caller before any sample is computed, for every input including the     *)
(* empty one; an accepted tag does not raise.                              *)
C2_AcceptedTags(p) ==
    CASE p \in Dimitriadis \cup {"sphere_approx_kontomaris"} -> {"paraboloid"}
      [] p \in {"bec_gavara_cone", "bec_managuli_cone"} -> {"cone"}
      [] p = "bec_garcia_garcia" -> {"paraboloid", "conical", "flat_punch"}

C2_GeometryGate ==
    pc # "call" =>
        IF ind_shape \in C2_AcceptedTags(provider)
        THEN pc # "raised"
        ELSE /\ pc = "raised"
             /\ i = 0
             /\ coeff = None
             /\ coefficients_out = << >>
             /\ traces = << >>

\* the cone provider refusing "conical" on a non-empty input
C2_Witness ==
    /\ pc = "raised"
    /\ provider = "bec_gavara_cone"
    /\ ind_shape = "conical"
    /\ indentation # << >>

(* C3: for the five providers other than sphere_approx_kontomaris, with an *)
(* accepted tag and h <= 0 every coefficient is exactly 1.0, whatever the  *)
(* samples, the tip parameter and the order are.                           *)
C3_IdentityAtNonPositiveHeight ==
    (provider # "sphere_approx_kontomaris" /\ h.v <= 0) =>
        /\ \A k \in Filled : coefficients_out[k] = One
        /\ traces = << >>
        /\ pc # "call" /\ ind_shape \in C2_AcceptedTags(provider) => pc # "raised"

\* bec_garcia_garcia, h <= 0, order beyond the table, a malformed sample
C3_Witness ==
    /\ pc = "returned"
    /\ provider = "bec_garcia_garcia"
    /\ h.v <= 0
    /\ order > 4
    /\ Len(coefficients_out) = 2
    /\ indentation[1] = None

(* C4: a sample whose evaluation raises gives 1.0 at its index, the call   *)
(* returns, and every index holds what the provider returns for the        *)
(* one-element input of that sample: no element is changed, dropped or     *)
(* reordered by a failure elsewhere.                                       *)
C4_FailureIsolation ==
    /\ \A k \in Filled :
        LET r == TryOf(provider, h, indentation[k], ind_shape, tip_parameter,
                       order)
        IN  /\ Traced(k - 1) <=> r.raised
            /\ Traced(k - 1) => coefficients_out[k] = One
            /\ coefficients_out[k] = OneElementOf(r)
    /\ traces # << >> => pc \in {"loop", "returned"}
    /\ pc = "loop" => Len(coefficients_out) = i
    /\ pc = "returned" => Len(coefficients_out) = Len(indentation)

\* sphere_approx_kontomaris: the first sample fails after accumulating the
\* first term, the second is computed
C4_Witness ==
    /\ pc = "returned"
    /\ provider = "sphere_approx_kontomaris"
    /\ traces = <<0>>
    /\ Len(coefficients_out) = 2
    /\ coefficients_out[1] = One
    /\ coefficients_out[2] \notin {One, NaN}

(* C5: an order beyond the term table (order > 4 for bec_garcia_garcia,    *)
(* order > 6 for sphere_approx_kontomaris) is raised to the caller: the    *)
(* call does not return a sequence.                                        *)
C5_OrderBeyondTableRaises ==
    (/\ ind_shape \in C2_AcceptedTags(provider)
     /\ \/ provider = "bec_garcia_garcia" /\ order > 4
        \/ provider = "sphere_approx_kontomaris" /\ order > 6)
    => pc # "returned"

(* C6: for the two Dimitriadis providers, bec_gavara_cone and              *)
(* bec_managuli_cone with h > 0, a sample equal to 0 gives exactly 1.0,    *)
(* for every tip parameter and whatever the other samples are.             *)
C6_ZeroIndentationNeutral ==
    (provider \in Dimitriadis \cup {"bec_gavara_cone", "bec_managuli_cone"}
     /\ GtZero(h)) =>
        \A k \in Filled : indentation[k] = Zero => coefficients_out[k] = One

\* bec_gavara_cone: a zero sample after a sample that is corrected
C6_Witness ==
    /\ pc = "returned"
    /\ provider = "bec_gavara_cone"
    /\ GtZero(h)
    /\ tip_parameter = D(2, 1)
    /\ indentation = <<D(2, 1), Zero>>
    /\ coefficients_out[1] # One
    /\ coefficients_out[2] = One

(* C7: in the two Dimitriadis providers with h > 0, a sample whose product *)
(* indentation[i] * R under the square root is negative gives exactly 1.0  *)
(* (not a not-a-number value).                                             *)
C7_NegativeRootDegrades ==
    (provider \in Dimitriadis /\ GtZero(h)) =>
        \A k \in Filled :
            LET prod == Mul(indentation[k], tip_parameter)
            IN  (prod.t = "float" /\ prod.v < 0) => coefficients_out[k] = One

(* C8: bec_garcia_garcia with h > 0 and 0 <= order <= 4 gives 1.0 plus the *)
(* first `order` entries, in table order, of the table of its geometry tag *)
(* evaluated at (h, indentation[i], tip_parameter); order = 0 gives 1.0.   *)
(* (A sample on which a term raises gives 1.0, as in C4.)                  *)
C8_Table(shape, j, hh, d, p) ==
    CASE shape = "paraboloid" -> paraboloid_model_factors(j, hh, d, p)
      [] shape = "conical" -> conical_model_factors(j, hh, d, p)
      [] shape = "flat_punch" -> flat_punch_model_factors(j, hh, d, p)

RECURSIVE C8_Sum(_, _, _, _, _)
C8_Sum(shape, n, hh, d, p) ==
    IF n = 0 THEN One
    ELSE Add(C8_Sum(shape, n - 1, hh, d, p), C8_Table(shape, n - 1, hh, d, p))

C8_GarciaFirstTerms ==
    (provider = "bec_garcia_garcia" /\ GtZero(h) /\ order <= 4) =>
        \A k \in Filled :
            LET sum == C8_Sum(ind_shape, order, h, indentation[k], tip_parameter)
            IN  /\ coefficients_out[k] = IF sum = Raise THEN One ELSE sum
                /\ order = 0 => coefficients_out[k] = One

\* two terms of the conical table
C8_Witness ==
    /\ pc = "returned"
    /\ provider = "bec_garcia_garcia"
    /\ ind_shape = "conical"
    /\ GtZero(h)
    /\ order = 2
    /\ Len(coefficients_out) = 2
    /\ coefficients_out[1] \notin {One, NaN}
    /\ coefficients_out[1] #
           C8_Sum(ind_shape, 3, h, indentation[1], tip_parameter)
    /\ coefficients_out[1] #
           C8_Sum(ind_shape, 1, h, indentation[1], tip_parameter)

(* C9: bec_garcia_garcia with an accepted tag, h > 0 and order > 4: the    *)
(* call returns, every coefficient is exactly 1.0 (the four terms summed   *)
(* before the failing lookup are discarded) and the length is kept.        *)
C9_GarciaOrderBeyondTable ==
    (provider = "bec_garcia_garcia" /\ GtZero(h) /\ order > 4 /\ pc # "call"
     /\ ind_shape \in C2_AcceptedTags(provider)) =>
        /\ pc # "raised"
        /\ \A k \in Filled : coefficients_out[k] = One
        /\ Len(traces) = Len(coefficients_out)
        /\ pc = "returned" => Len(coefficients_out) = Len(indentation)

\* the local coeff held the sum of the four terms when the lookup failed
C9_Witness ==
    /\ pc = "returned"
    /\ provider = "bec_garcia_garcia"
    /\ GtZero(h)
    /\ order > 4
    /\ Len(coefficients_out) = 2
    /\ coeff.t = "float"
    /\ coeff # One

(* C10: sphere_approx_kontomaris ignores the sample height: the result is  *)
(* the one of the same call with any other height (no identity gate at     *)
(* h <= 0); the accumulator starts at 0.0 and a sample gives the sum over  *)
(* j = 1 .. order of (3/2) * sqrt(R) * term_j(indentation[i], R), so       *)
(* order = 0 gives 0.0.  (A sample on which a term raises gives 1.0, as in *)
(* C4; the table has six terms.)                                           *)
RECURSIVE C10_Sum(_, _, _)
C10_Sum(n, d, R) ==
    IF n = 0 THEN Zero
    ELSE Add(C10_Sum(n - 1, d, R),
             Mul(Mul(Div(D(3, 1), D(2, 1)), NpSqrt(R)),
                 kontomaris_model_factors(n - 1, d, R)))

C10_KontomarisIgnoresHeight ==
    provider = "sphere_approx_kontomaris" =>
        \A k \in Filled :
            /\ \A h2 \in Heights \ {h} :
                   coefficients_out[k] =
                       OneElementCall(provider, h2, indentation[k], ind_shape,
                                      tip_parameter, order)
            /\ order <= 6 =>
                   LET sum == C10_Sum(order, indentation[k], tip_parameter)
                   IN  coefficients_out[k] = IF sum = Raise THEN One ELSE sum
            /\ order = 0 => coefficients_out[k] = Zero

\* h <= 0 and a coefficient that is neither 1.0 nor the empty sum
C10_Witness ==
    /\ pc = "returned"
    /\ provider = "sphere_approx_kontomaris"
    /\ h.v <= 0
    /\ order = 3
    /\ Len(coefficients_out) = 2
    /\ coefficients_out[1].t = "float"
    /\ coefficients_out[1] \notin {One, Zero}

====
